---- MODULE Spec2Model ----
(***************************************************************************)
(* Fintrust Global backend: the session store, the HTTP handlers of        *)
(* main.py, the two background units of work (run_pipeline, build_model)   *)
(* cut at their await points, and the recommend cascade of AnalystAgent.   *)
(*                                                                         *)
(* Python values are modelled as follows.  None is the string "None".      *)
(* Company data is a heap of dicts, because the code aliases it            *)
(* (AnalystAgent.recommend keeps the dict it read before its sleep;        *)
(* provide_missing_data mutates the dict the session currently points to): *)
(* dicts[t] is the dict run t fetched, a session's company_data is such a  *)
(* t, or 0 for the {} that get_session made (kept in initial_data).  A     *)
(* dict no session and no suspended run refers to is freed, as CPython     *)
(* does, and reads as EmptyData.  Money amounts are integers;              *)
(* the comparisons of the rule are done exactly on fractions.              *)
(* Free text (reasoning, deep_analysis, key_metrics, timestamps) is left   *)
(* out: no control flow reads it.                                          *)
(***************************************************************************)
EXTENDS Integers, Sequences, FiniteSets, TLC

VARIABLES sessions, dicts, tasks, files, probe

vars == <<sessions, dicts, tasks, files, probe>>

\* ---------------------------------------------------------------- bounds
MaxTasks == 2          \* background units of work ever scheduled
MaxLen == 3            \* longest history in the inputs of the rule

SessionIds == {"s1"}
Queries == {"analyse acme"}
ReqModelTypes == {"None", "Comps"}        \* ConfirmModel.model_type
UserFields == {"market_cap"}                   \* MissingData.field
UserValues == {"7"}                            \* MissingData.value (a str)

ModelTypes == {"DCF", "LBO", "3-Statement", "FP&A"}
Terminal == {"delivered", "error"}

\* ------------------------------------------------------------- log entries
Entry(agent, status, msg) == [agent |-> agent, status |-> status, msg |-> msg]

\* main.py add_log
add_log(logs, agent, msg, status) == Append(logs, Entry(agent, status, msg))

\* ------------------------------------------------------------ company data
\* the <<field, value>> items provide_missing_data stored in a dict
NoUser == {}

\* the dict {} of get_session and the {"found": False} of the data layer
EmptyData ==
    [found |-> FALSE, revenue_history |-> <<>>, ebitda_history |-> <<>>,
     total_debt |-> 0, market_cap |-> 0, sector |-> "", user |-> NoUser]

Data(rev, ebi, debt, mcap, sector) ==
    [found |-> TRUE, revenue_history |-> rev, ebitda_history |-> ebi,
     total_debt |-> debt, market_cap |-> mcap, sector |-> sector, user |-> NoUser]

\* what ResearchAgent._fetch_company_data can hand back in the pipeline model
FetchResults ==
    { EmptyData,
      Data(<<120, 100>>, <<40, 30>>, 10, 100, "Unknown"),
      Data(<<100, 50, -20>>, <<10, 10, 10>>, 0, 100, "Unknown") }

\* ----------------------------------------------------------------- session
\* main.py get_session: the record a first reference creates
NewSession ==
    [phase |-> "idle", company_name |-> "None", company_data |-> 0,
     initial_data |-> EmptyData,
     model_recommendation |-> "None", assumptions |-> <<>>,
     narrator_notes |-> <<>>, missing_fields |-> <<>>,
     excel_path |-> 0, qa_report |-> "None", logs |-> <<>>, error |-> "None"]

\* main.py get_session as a state change: sessions and heap after get_session(s)
SessionsAfterGet(s) ==
    IF s \in DOMAIN sessions THEN sessions
    ELSE [x \in DOMAIN sessions \cup {s} |->
            IF x = s THEN NewSession ELSE sessions[x]]

\* the dict session["company_data"] names
CompanyData(sess, dd) ==
    IF sess.company_data = 0 THEN sess.initial_data ELSE dd[sess.company_data]

\* reference counting: dicts and sessions with the unreferenced dicts freed
Referenced(ss, tt, ref) ==
    \/ \E s \in DOMAIN ss : ss[s].company_data = ref
    \/ tt[ref].pc = "recommend"

FreeDicts(ss, tt, dd) ==
    [ref \in DOMAIN dd |-> IF Referenced(ss, tt, ref) THEN dd[ref] ELSE EmptyData]

FreeInitial(sess) ==
    IF sess.company_data = 0 THEN sess ELSE [sess EXCEPT !.initial_data = EmptyData]

\* ------------------------------------------- the rule-based recommendation
RECURSIVE Pow(_, _)
Pow(b, e) == IF e = 0 THEN 1 ELSE b * Pow(b, e - 1)

Min(a, b) == IF a < b THEN a ELSE b

\* a field the user overwrote through provide_missing_data holds a str
IsStr(d, f) == \E item \in d.user : item[1] = f

\* analyst_agent.py 172-177: what rev_cagr is after the block.
\*   "zero"    fewer than two entries: rev_cagr stays 0
\*   "default" the division raised (last entry 0): 0.08
\*   "complex" a negative base under a fractional exponent: Python returns a
\*             complex number and raises nothing
\*   "real"    (revenue[0]/revenue[-1]) ** (1/(n-1)) - 1
CagrKind(rev) ==
    LET n == Len(rev) IN
    IF n < 2 THEN "zero"
    ELSE IF rev[n] = 0 THEN "default"
    ELSE IF rev[1] * rev[n] < 0 /\ n >= 3 THEN "complex"
    ELSE "real"

\* a real rev_cagr > 0.20, decided on integers: a/b > (12/10)^(n-1)
CagrAbove20(rev) ==
    LET n == Len(rev)
        a == rev[1]
        b == rev[n]
    IN /\ CagrKind(rev) = "real"
       /\ IF b > 0 THEN a * Pow(10, n - 1) > b * Pow(12, n - 1)
                   ELSE a * Pow(10, n - 1) < b * Pow(12, n - 1)

\* analyst_agent.py 182: margins = [e/r for e, r in zip(ebitda, revenue) if r > 0]
MarginYears(ebi, rev) == {i \in 1..Min(Len(ebi), Len(rev)) : rev[i] > 0}

\* the sum of ebi[i]/rev[i] over the years 1..k of MarginYears, as <<num, den>>
RECURSIVE MarginSum(_, _, _)
MarginSum(ebi, rev, k) ==
    IF k = 0 THEN <<0, 1>>
    ELSE LET p == MarginSum(ebi, rev, k - 1) IN
         IF rev[k] > 0
         THEN <<p[1] * rev[k] + ebi[k] * p[2], p[2] * rev[k]>>
         ELSE p

\* analyst_agent.py 179-185: avg_margin > 0.25 (0 and the default 0.20 are not)
MarginAbove25(ebi, rev) ==
    /\ ebi # <<>> /\ rev # <<>>
    /\ MarginYears(ebi, rev) # {}
    /\ LET p == MarginSum(ebi, rev, Min(Len(ebi), Len(rev)))
       IN 4 * p[1] > Cardinality(MarginYears(ebi, rev)) * p[2]

\* analyst_agent.py 187-194: debt_ebitda > 3.0
DebtAbove3(ebi, debt) == ebi # <<>> /\ ebi[1] > 0 /\ debt > 3 * ebi[1]

\* analyst_agent.py 169: sector = data.get("sector", "").lower()
Lower(sector) ==
    CASE sector = "Technology" -> "technology"
      [] sector = "Consumer Cyclical" -> "consumer cyclical"
      [] sector = "Unknown" -> "unknown"
      [] OTHER -> sector

\* analyst_agent.py 198: any(s in sector for s in ["technology", "software",
\* "pharma", "consumer"]), over the sectors of the model
GrowthSector(sector) == Lower(sector) \in {"technology", "consumer cyclical"}

MarketCapThreshold == 5000

\* analyst_agent.py _rule_based_recommendation: the exception it lets out, or
\* the model_type it returns
_rule_based_recommendation(d) ==
    LET rev == d.revenue_history
        ebi == d.ebitda_history
        complex == CagrKind(rev) = "complex"
    IN
    IF DebtAbove3(ebi, d.total_debt)
    THEN \* round(rev_cagr, 3) of the returned dict raises on a complex number
         [raised |-> complex, error |-> IF complex THEN "TypeError" ELSE "None",
          model_type |-> "LBO"]
    ELSE IF complex
    THEN [raised |-> TRUE, error |-> "TypeError", model_type |-> "None"]
    ELSE IF CagrAbove20(rev) \/ GrowthSector(d.sector)
    THEN [raised |-> FALSE, error |-> "None", model_type |-> "DCF"]
    ELSE IF MarginAbove25(ebi, rev)
    THEN IF IsStr(d, "market_cap")
         THEN [raised |-> TRUE, error |-> "TypeError", model_type |-> "None"]
         ELSE IF d.market_cap > MarketCapThreshold
         THEN [raised |-> FALSE, error |-> "None", model_type |-> "DCF"]
         ELSE [raised |-> FALSE, error |-> "None", model_type |-> "3-Statement"]
    ELSE [raised |-> FALSE, error |-> "None", model_type |-> "3-Statement"]

\* ------------------------------------------------------------ the providers
\* What one provider call ends in.  kind:
\*   "no_key"   no API key configured: returns None, logs nothing (unavailable)
\*   "raised"   import, connection, timeout or API error: caught, one warning
\*   "no_json"  answered, no {...} in the text: returns None, logs nothing
\*   "bad_json" answered, json.loads raised: caught, one warning
\*   "parsed"   json.loads returned the dict `result`
NoResult == [keys |-> {}, model_type |-> "None"]
Failure(kind) == [kind |-> kind, result |-> NoResult]
Parsed(keys, mt) == [kind |-> "parsed", result |-> [keys |-> keys, model_type |-> mt]]

ProviderOutcomes ==
    { Failure("no_key"), Failure("raised"), Failure("no_json"), Failure("bad_json"),
      Parsed({}, "None"),
      Parsed({"reasoning"}, "None"),
      Parsed({"model_type"}, "DCF"),
      Parsed({"model_type", "reasoning"}, "LBO"),
      Parsed({"model_type", "reasoning"}, "Comps") }

\* Python truth of what _get_gemini_recommendation / _get_groq_recommendation return
Truthy(o) == o.kind = "parsed" /\ o.result.keys # {}

\* analyst_agent.py 117-118, 159-160: the warning a caught exception leaves
ProviderLogs(name, o) ==
    IF o.kind \in {"raised", "bad_json"}
    THEN <<Entry("Analyst Agent", "warning", name)>>
    ELSE <<>>

\* a cascade without the short-circuit: Groq is asked even when Gemini
\* answered, and the later answer wins
recommend_all_links(d, g, q) ==
    LET useRule == ~Truthy(g) /\ ~Truthy(q)
        rule == _rule_based_recommendation(d)
        calls == <<"gemini", "groq">> \o (IF useRule THEN <<"rule">> ELSE <<>>)
        l1 == ProviderLogs("Gemini analyst", g) \o ProviderLogs("Groq analyst", q)
                \o (IF useRule
                    THEN <<Entry("Analyst Agent", "info", "Using quantitative model selection")>>
                    ELSE <<>>)
        rec == IF Truthy(q) THEN q.result
               ELSE IF Truthy(g) THEN g.result
               ELSE [keys |-> {"model_type", "reasoning"}, model_type |-> rule.model_type]
    IN
    IF useRule /\ rule.raised
    THEN [raised |-> TRUE, error |-> rule.error, wrote |-> FALSE,
          model_type |-> "None", logs |-> l1, calls |-> calls]
    ELSE IF "model_type" \notin rec.keys
    THEN [raised |-> TRUE, error |-> "'model_type'", wrote |-> FALSE,
          model_type |-> "None", logs |-> l1, calls |-> calls]
    ELSE [raised |-> "reasoning" \notin rec.keys,
          error |-> IF "reasoning" \notin rec.keys THEN "'reasoning'" ELSE "None",
          wrote |-> TRUE, model_type |-> rec.model_type,
          logs |-> l1 \o <<Entry("Analyst Agent", "success", "Recommended")>>,
          calls |-> calls]

\* analyst_agent.py recommend, from line 40 (after the sleep) to its return:
\* the links invoked, the log entries appended, whether
\* session["model_recommendation"] was written, and the result or the exception.
recommend(d, g, q) ==
    LET useGroq == ~Truthy(g)
        useRule == useGroq /\ ~Truthy(q)
        rule == _rule_based_recommendation(d)
        calls == <<"gemini">> \o (IF useGroq THEN <<"groq">> ELSE <<>>)
                              \o (IF useRule THEN <<"rule">> ELSE <<>>)
        l1 == ProviderLogs("Gemini analyst", g)
                \o (IF useGroq THEN ProviderLogs("Groq analyst", q) ELSE <<>>)
                \o (IF useRule
                    THEN <<Entry("Analyst Agent", "info", "Using quantitative model selection")>>
                    ELSE <<>>)
        rec == IF Truthy(g) THEN g.result
               ELSE IF Truthy(q) THEN q.result
               ELSE [keys |-> {"model_type", "reasoning"}, model_type |-> rule.model_type]
    IN
    IF useRule /\ rule.raised
    THEN [raised |-> TRUE, error |-> rule.error, wrote |-> FALSE,
          model_type |-> "None", logs |-> l1, calls |-> calls]
    ELSE IF "model_type" \notin rec.keys
    THEN [raised |-> TRUE, error |-> "'model_type'", wrote |-> FALSE,
          model_type |-> "None", logs |-> l1, calls |-> calls]
    ELSE IF "reasoning" \notin rec.keys
    THEN [raised |-> TRUE, error |-> "'reasoning'", wrote |-> TRUE,
          model_type |-> rec.model_type,
          logs |-> l1 \o <<Entry("Analyst Agent", "success", "Recommended")>>,
          calls |-> calls]
    ELSE [raised |-> FALSE, error |-> "None", wrote |-> TRUE,
          model_type |-> rec.model_type,
          logs |-> l1 \o <<Entry("Analyst Agent", "success", "Recommended"),
                          Entry("Analyst Agent", "info", "reasoning")>>,
          calls |-> calls]

\* main.py generate_deep_analysis 203-237: building the prompt raises on a
\* complex rev_cagr ({rev_cagr:.1%}) and on a str market_cap ({market_cap:,.0f})
DeepAnalysisRaises(d) ==
    CagrKind(d.revenue_history) = "complex" \/ IsStr(d, "market_cap")

\* one field of one session replaced
SetFields(ss, s, new) == [ss EXCEPT ![s] = new]

\* --------------------------------------------------------------- the tasks
\* BackgroundTasks.add_task: a unit of work, not yet started
Task(kind, s) ==
    [kind |-> kind, sid |-> s, pc |-> "scheduled", stage |-> "none",
     model_type |-> "None", k |-> 0]

\* ------------------------------------------------------------ the handlers
\* main.py new_session: a fresh uuid4, then get_session
new_session(s) ==
    /\ s \notin DOMAIN sessions
    /\ sessions' = SessionsAfterGet(s)
    /\ UNCHANGED <<dicts, tasks, files, probe>>

\* main.py start_research (s is req.session_id, or the fresh uuid4)
start_research(s, q) ==
    /\ Len(tasks) < MaxTasks
    /\ LET ss == SessionsAfterGet(s)
       IN sessions' = SetFields(ss, s,
              [ss[s] EXCEPT !.phase = "researching", !.company_name = q,
                            !.logs = <<>>])
    /\ tasks' = Append(tasks, Task("run_pipeline", s))
    /\ dicts' = Append(dicts, EmptyData)
    /\ UNCHANGED <<files, probe>>

\* a cancellation that sends the session back to idle
confirm_model_resets(s, confirmed, mt) ==
    /\ confirmed => Len(tasks) < MaxTasks
    /\ LET ss == SessionsAfterGet(s)
           s1 == IF mt # "None"
                 THEN [ss[s] EXCEPT !.model_recommendation = mt] ELSE ss[s]
           s2 == IF confirmed THEN [s1 EXCEPT !.phase = "building"]
                 ELSE [s1 EXCEPT !.phase = "idle"]
       IN sessions' = SetFields(ss, s, s2)
    /\ tasks' = IF confirmed THEN Append(tasks, Task("build_model", s)) ELSE tasks
    /\ dicts' = IF confirmed THEN Append(dicts, EmptyData) ELSE dicts
    /\ UNCHANGED <<files, probe>>

\* main.py confirm_model
confirm_model(s, confirmed, mt) ==
    /\ confirmed => Len(tasks) < MaxTasks
    /\ LET ss == SessionsAfterGet(s)
           s1 == IF mt # "None"
                 THEN [ss[s] EXCEPT !.model_recommendation = mt] ELSE ss[s]
           s2 == IF confirmed THEN [s1 EXCEPT !.phase = "building"] ELSE s1
       IN sessions' = SetFields(ss, s, s2)
    /\ tasks' = IF confirmed THEN Append(tasks, Task("build_model", s)) ELSE tasks
    /\ dicts' = IF confirmed THEN Append(dicts, EmptyData) ELSE dicts
    /\ UNCHANGED <<files, probe>>

\* main.py get_status: the answer for a session record
StatusOf(sess) ==
    [phase |-> sess.phase, model_recommendation |-> sess.model_recommendation,
     error |-> sess.error, excel_ready |-> sess.excel_path # 0]

\* main.py download_model: TRUE when the file is served, FALSE for "not ready"
DownloadOf(sess) == sess.excel_path # 0 /\ sess.excel_path \in files

\* main.py get_status as a step: its only effect is get_session's
get_status(s) ==
    /\ sessions' = SessionsAfterGet(s)
    /\ UNCHANGED <<dicts, tasks, files, probe>>

\* main.py download_model as a step
download_model(s) ==
    /\ sessions' = SessionsAfterGet(s)
    /\ UNCHANGED <<dicts, tasks, files, probe>>

\* main.py provide_missing_data: session["company_data"][field] = value
SetItem(d, f, v) ==
    [d EXCEPT !.user = {item \in d.user : item[1] # f} \cup {<<f, v>>}]

\* a store whose records share one company-data dict: the value lands in every
\* session
provide_missing_data_shared(s, f, v) ==
    LET ss == SessionsAfterGet(s)
    IN /\ sessions' = [x \in DOMAIN ss |->
                          IF ss[x].company_data = 0
                          THEN [ss[x] EXCEPT !.initial_data = SetItem(@, f, v)]
                          ELSE ss[x]]
       /\ dicts' = [ref \in DOMAIN dicts |->
                       IF \E x \in DOMAIN ss : ss[x].company_data = ref
                       THEN SetItem(dicts[ref], f, v) ELSE dicts[ref]]
       /\ UNCHANGED <<tasks, files, probe>>

provide_missing_data(s, f, v) ==
    LET ss == SessionsAfterGet(s)
        ref == ss[s].company_data
    IN /\ sessions' = IF ref = 0
                       THEN SetFields(ss, s, [ss[s] EXCEPT !.initial_data = SetItem(@, f, v)])
                       ELSE ss
       /\ dicts' = IF ref = 0 THEN dicts ELSE [dicts EXCEPT ![ref] = SetItem(@, f, v)]
       /\ UNCHANGED <<tasks, files, probe>>

\* ------------------------------------------------- run_pipeline, by await
\* research_agent.py _extract_company_name, on the queries of the model
_extract_company_name(query) ==
    CASE query = "analyse acme" -> "acme"
      [] OTHER -> query

Append2(logs, more) == logs \o more

\* main.py run_pipeline 159-168 and research_agent.py fetch 120-125: up to the
\* first sleep
run_pipeline_begin(t) ==
    /\ tasks[t].kind = "run_pipeline" /\ tasks[t].pc = "scheduled"
    /\ LET s == tasks[t].sid
           sess == sessions[s]
       IN sessions' = SetFields(sessions, s,
              [sess EXCEPT !.company_name = _extract_company_name(sess.company_name),
                           !.logs = add_log(sess.logs, "Research Agent", "Researching", "thinking")])
    /\ tasks' = [tasks EXCEPT ![t].pc = "fetch", ![t].stage = "research"]
    /\ UNCHANGED <<dicts, files, probe>>

\* a pipeline without the early return of run_pipeline 170-171: the Analysis
\* stage starts whatever the data layer found
run_pipeline_fetched_on(t, d) ==
    /\ tasks[t].kind = "run_pipeline" /\ tasks[t].pc = "fetch"
    /\ LET s == tasks[t].sid
           sess == sessions[s]
           l1 == add_log(sess.logs, "Research Agent", "data source",
                         IF d.found THEN "success" ELSE "warning")
           s1 == FreeInitial([sess EXCEPT !.company_data = t, !.logs = l1])
           s2 == IF d.found THEN s1
                 ELSE [s1 EXCEPT !.phase = "error", !.error = "Could not find financial data",
                                 !.logs = add_log(l1, "Research Agent", "Company not found", "error")]
       IN /\ sessions' = SetFields(sessions, s,
                 [s2 EXCEPT !.logs = add_log(s2.logs, "Analyst Agent", "Running CFA-level analysis", "thinking")])
          /\ tasks' = [tasks EXCEPT ![t].pc = "recommend", ![t].stage = "analysis"]
          /\ dicts' = FreeDicts(sessions', tasks', [dicts EXCEPT ![t] = d])
    /\ UNCHANGED <<files, probe>>

\* research_agent.py fetch 127-133, main.py run_pipeline 170-175 and
\* analyst_agent.py recommend 33-37: the data layer answers d; up to the sleep
\* of recommend, or the early return on phase "error"
run_pipeline_fetched(t, d) ==
    /\ tasks[t].kind = "run_pipeline" /\ tasks[t].pc = "fetch"
    /\ LET s == tasks[t].sid
           sess == sessions[s]
           l1 == add_log(sess.logs, "Research Agent", "data source",
                         IF d.found THEN "success" ELSE "warning")
           s1 == FreeInitial([sess EXCEPT !.company_data = t, !.logs = l1])
           s2 == IF d.found THEN s1
                 ELSE [s1 EXCEPT !.phase = "error", !.error = "Could not find financial data",
                                 !.logs = add_log(l1, "Research Agent", "Company not found", "error")]
       IN /\ IF s2.phase = "error"
             THEN /\ sessions' = SetFields(sessions, s, s2)
                  /\ tasks' = [tasks EXCEPT ![t].pc = "done"]
             ELSE /\ sessions' = SetFields(sessions, s,
                         [s2 EXCEPT !.logs = add_log(s2.logs, "Analyst Agent", "Running CFA-level analysis", "thinking")])
                  /\ tasks' = [tasks EXCEPT ![t].pc = "recommend", ![t].stage = "analysis"]
          /\ dicts' = FreeDicts(sessions', tasks', [dicts EXCEPT ![t] = d])
    /\ UNCHANGED <<files, probe>>

\* an except clause that records the message and neither sets the phase nor
\* logs
PipelineErrorSilent(sess, msg) == [sess EXCEPT !.error = msg]

\* main.py run_pipeline 185-188: the except clause
PipelineError(sess, msg) ==
    [sess EXCEPT !.phase = "error", !.error = msg,
                 !.logs = add_log(sess.logs, "System", "Pipeline error", "error")]

\* a pipeline that does not wait for the user: after the recommendation it
\* moves on to the build by itself
run_pipeline_autobuild(t, g, q, deep) ==
    /\ tasks[t].kind = "run_pipeline" /\ tasks[t].pc = "recommend"
    /\ Truthy(g) => q = Failure("no_key")
    /\ LET s == tasks[t].sid
           sess == sessions[s]
           r == recommend(dicts[t], g, q)
           s1 == [sess EXCEPT !.logs = Append2(sess.logs, r.logs),
                              !.model_recommendation =
                                  IF r.wrote THEN r.model_type ELSE sess.model_recommendation]
       IN /\ IF r.raised
             THEN /\ sessions' = SetFields(sessions, s, PipelineError(s1, r.error))
                  /\ tasks' = [tasks EXCEPT ![t].pc = "faulted"]
             ELSE /\ sessions' = SetFields(sessions, s, [s1 EXCEPT !.phase = "building"])
                  /\ tasks' = Append([tasks EXCEPT ![t].pc = "done", ![t].stage = "deep_analysis"],
                                     Task("build_model", s))
          /\ dicts' = FreeDicts(sessions', tasks',
                                IF r.raised THEN dicts ELSE Append(dicts, EmptyData))
    /\ UNCHANGED <<files, probe>>

\* analyst_agent.py recommend 40-55, main.py run_pipeline 177-188 and
\* generate_deep_analysis: the providers end in g and q, the deep-analysis
\* provider answers or not; no await in between
run_pipeline_recommend(t, g, q, deep) ==
    /\ tasks[t].kind = "run_pipeline" /\ tasks[t].pc = "recommend"
    /\ Truthy(g) => q = Failure("no_key")
    /\ LET s == tasks[t].sid
           sess == sessions[s]
           r == recommend(dicts[t], g, q)
           s1 == [sess EXCEPT !.logs = Append2(sess.logs, r.logs),
                              !.model_recommendation =
                                  IF r.wrote THEN r.model_type ELSE sess.model_recommendation]
           s2 == [s1 EXCEPT !.phase = "awaiting_confirmation",
                            !.model_recommendation = r.model_type]
       IN /\ IF r.raised
             THEN /\ sessions' = SetFields(sessions, s, PipelineError(s1, r.error))
                  /\ tasks' = [tasks EXCEPT ![t].pc = "faulted"]
             ELSE IF DeepAnalysisRaises(CompanyData(sess, dicts))
             THEN /\ ~deep
                  /\ sessions' = SetFields(sessions, s, PipelineError(s2, "ValueError"))
                  /\ tasks' = [tasks EXCEPT ![t].pc = "faulted", ![t].stage = "deep_analysis"]
             ELSE /\ sessions' = SetFields(sessions, s,
                         IF deep
                         THEN [s2 EXCEPT !.logs = add_log(s2.logs, "Analyst Agent",
                                                          "CFA-level analysis complete", "success")]
                         ELSE s2)
                  /\ tasks' = [tasks EXCEPT ![t].pc = "done", ![t].stage = "deep_analysis"]
          /\ dicts' = FreeDicts(sessions', tasks', dicts)
    /\ UNCHANGED <<files, probe>>

\* --------------------------------------------------- build_model, by await
\* build_agent.py _build_dcf logs six sheets with a sleep after each, the
\* other three builders one line with one sleep
SheetSleeps(model_type) == IF model_type = "DCF" THEN 6 ELSE 1

DcfSheets == <<"COVER", "ASSUMPTIONS", "INCOME_STATEMENT", "FCF_BRIDGE", "WACC",
               "VALUATION", "DASHBOARD">>

SheetLog(model_type, k) == IF model_type = "DCF" THEN DcfSheets[k] ELSE "sheets"

\* main.py build_model 292-296 and build_agent.py build 32-37: up to the first
\* sleep
build_model_begin(t) ==
    /\ tasks[t].kind = "build_model" /\ tasks[t].pc = "scheduled"
    /\ LET s == tasks[t].sid
           sess == sessions[s]
       IN /\ sessions' = SetFields(sessions, s,
                 [sess EXCEPT !.logs = add_log(sess.logs, "Build Agent", "Building", "thinking")])
          /\ tasks' = [tasks EXCEPT ![t].pc = "sheets", ![t].stage = "build",
                                    ![t].model_type = sess.model_recommendation]
    /\ UNCHANGED <<dicts, files, probe>>

\* build_agent.py _build_dcf 66-77, _build_lbo 85-86 (and _build_3stmt,
\* _build_fpa): one log line, then a sleep
build_model_sheet(t) ==
    /\ tasks[t].kind = "build_model" /\ tasks[t].pc = "sheets"
    /\ tasks[t].k < SheetSleeps(tasks[t].model_type)
    /\ LET s == tasks[t].sid
           sess == sessions[s]
       IN sessions' = SetFields(sessions, s,
              [sess EXCEPT !.logs = add_log(sess.logs, "Build Agent",
                                            SheetLog(tasks[t].model_type, tasks[t].k + 1), "info")])
    /\ tasks' = [tasks EXCEPT ![t].k = @ + 1]
    /\ UNCHANGED <<dicts, files, probe>>

\* build_agent.py build 46-62 after the last sleep, and main.py build_model
\* 297-300: the renderer writes the file (named by the task here; the code
\* names it by model type and second) or faults.  The session's assumptions
\* are the {} of get_session, so the COMPS and SCENARIOS sheets are skipped.
\* build() returns the path and build_model drops it.
build_model_render(t, outcome) ==
    /\ tasks[t].kind = "build_model" /\ tasks[t].pc = "sheets"
    /\ tasks[t].k = SheetSleeps(tasks[t].model_type)
    /\ LET s == tasks[t].sid
           sess == sessions[s]
           l0 == IF tasks[t].model_type = "DCF"
                 THEN add_log(sess.logs, "Build Agent", DcfSheets[7], "info")
                 ELSE sess.logs
       IN IF outcome = "ok"
          THEN /\ sessions' = SetFields(sessions, s,
                      [sess EXCEPT !.logs = Append2(l0,
                           <<Entry("Build Agent", "warning", "No peer data"),
                             Entry("Build Agent", "warning", "No scenario data"),
                             Entry("Build Agent", "success", "Model saved")>>)])
               /\ files' = files \cup {t}
               /\ tasks' = [tasks EXCEPT ![t].pc = "done", ![t].model_type = "None", ![t].k = 0]
          ELSE /\ sessions' = SetFields(sessions, s,
                      [sess EXCEPT !.phase = "error", !.error = "render fault",
                                   !.logs = add_log(l0, "Build Agent", "Build error", "error")])
               /\ files' = files
               /\ tasks' = [tasks EXCEPT ![t].pc = "faulted", ![t].model_type = "None", ![t].k = 0]
    /\ UNCHANGED <<dicts, probe>>

Init ==
    /\ sessions = [s \in {} |-> NewSession]
    /\ dicts = <<>>
    /\ tasks = <<>>
    /\ files = {}
    /\ probe = "none"

Handler ==
    \/ \E s \in SessionIds : new_session(s)
    \/ \E s \in SessionIds, q \in Queries : start_research(s, q)
    \/ \E s \in SessionIds, c \in BOOLEAN, mt \in ReqModelTypes : confirm_model(s, c, mt)
    \/ \E s \in SessionIds : get_status(s)
    \/ \E s \in SessionIds : download_model(s)
    \/ \E s \in SessionIds, f \in UserFields, v \in UserValues : provide_missing_data(s, f, v)

\* the provider outcomes the pipeline model draws from
PipelineOutcomes ==
    { Failure("no_key"),
      Parsed({"reasoning"}, "None"),
      Parsed({"model_type", "reasoning"}, "Comps") }

TaskStep ==
    \/ \E t \in DOMAIN tasks : run_pipeline_begin(t)
    \/ \E t \in DOMAIN tasks, d \in FetchResults : run_pipeline_fetched(t, d)
    \/ \E t \in DOMAIN tasks, g \in PipelineOutcomes, q \in PipelineOutcomes, deep \in BOOLEAN :
          run_pipeline_recommend(t, g, q, deep)
    \/ \E t \in DOMAIN tasks : build_model_begin(t)
    \/ \E t \in DOMAIN tasks : build_model_sheet(t)
    \/ \E t \in DOMAIN tasks, o \in {"ok", "fault"} : build_model_render(t, o)

Next == Handler \/ TaskStep

Spec == Init /\ [][Next]_vars

\* ------------------------------------------------------------ two sessions
SessionIds2 == {"s1", "s2"}

Handler2 ==
    \/ \E s \in SessionIds2 : new_session(s)
    \/ \E s \in SessionIds2, q \in Queries : start_research(s, q)
    \/ \E s \in SessionIds2, c \in BOOLEAN, mt \in ReqModelTypes : confirm_model(s, c, mt)
    \/ \E s \in SessionIds2 : get_status(s)
    \/ \E s \in SessionIds2 : download_model(s)
    \/ \E s \in SessionIds2, f \in UserFields, v \in UserValues : provide_missing_data(s, f, v)

Next2 == Handler2 \/ TaskStep

TwoSpec == Init /\ [][Next2]_vars

\* asyncio runs every scheduled or suspended unit of work again: the sleeps
\* end and the external calls return
FairSpec == Spec /\ WF_vars(TaskStep)

\* ------------------------------------------- the rule over its input domain
SeqsUpTo(S, n) == UNION {[1..k -> S] : k \in 0..n}

RevValues == {-20, 0, 100, 150}
EbiValues == {0, 40}

RuleInputs ==
    { [Data(rev, ebi, debt, mcap, sector) EXCEPT !.user = u] :
        rev \in SeqsUpTo(RevValues, MaxLen), ebi \in SeqsUpTo(EbiValues, MaxLen),
        debt \in {0, 200}, mcap \in {100, 9000},
        sector \in {"Unknown", "Technology"},
        u \in {NoUser, {<<"market_cap", "7">>}} }

\* both providers unavailable: no key, or the call raised
Unavailable == {Failure("no_key"), Failure("raised")}

NoOut == [raised |-> FALSE, error |-> "None", wrote |-> FALSE,
          model_type |-> "None", logs |-> <<>>, calls |-> <<>>]

RuleInit ==
    /\ sessions = [s \in {} |-> NewSession]
    /\ dicts = <<>>
    /\ tasks = <<>>
    /\ files = {}
    /\ probe \in {[data |-> d, applied |-> FALSE, attempts |-> <<>>, out |-> NoOut] :
                    d \in RuleInputs}

\* AnalystAgent(session).recommend() on the record, the providers unavailable
recommend_unavailable(g, q) ==
    /\ ~probe.applied
    /\ probe' = [probe EXCEPT !.applied = TRUE, !.attempts = <<g.kind, q.kind>>,
                              !.out = recommend(probe.data, g, q)]
    /\ UNCHANGED <<sessions, dicts, tasks, files>>

RuleNext == \E g \in Unavailable, q \in Unavailable : recommend_unavailable(g, q)

RuleSpec == RuleInit /\ [][RuleNext]_vars

\* --------------------------------------- the cascades over provider outcomes
\* what _get_gemini_narrator ends in: no key, a caught exception, no [...] in
\* the answer, an empty array, or a non-empty array of notes
NarratorOutcomes == {"no_key", "raised", "no_match", "empty", "notes"}

\* the assumption dicts handed to generate_narrator_notes, as their fields
AssumptionSets == {<<>>, <<"wacc">>, <<"wacc", "custom_field">>}

\* analyst_agent.py _explain_assumption: a non-empty sentence for every field,
\* from the table or from its default
_explain_assumption(field) ==
    IF field \in {"wacc"} THEN "table" ELSE "default"

\* analyst_agent.py generate_narrator_notes: the links invoked and the notes
\* (the provider's array, or one note for each field that has an explanation)
generate_narrator_notes(assumptions, n) ==
    IF n = "notes"
    THEN [calls |-> <<"gemini">>, source |-> "gemini", fields |-> <<>>]
    ELSE [calls |-> <<"gemini", "rule">>, source |-> "rule",
          fields |-> SelectSeq(assumptions, LAMBDA f : _explain_assumption(f) # "")]

CascadeInputs ==
    { EmptyData,
      Data(<<120, 100>>, <<40, 30>>, 200, 100, "Unknown"),
      Data(<<150, 100>>, <<40, 30>>, 0, 9000, "Technology"),
      Data(<<100, 50, -20>>, <<10, 10, 10>>, 0, 100, "Unknown") }

NoNotes == [calls |-> <<>>, source |-> "none", fields |-> <<>>]

CascadeInit ==
    /\ sessions = [s \in {} |-> NewSession]
    /\ dicts = <<>>
    /\ tasks = <<>>
    /\ files = {}
    /\ probe \in {[data |-> d, assumptions |-> a, op |-> "none",
                   g |-> Failure("no_key"), q |-> Failure("no_key"), n |-> "no_key",
                   out |-> NoOut, notes |-> NoNotes] :
                    d \in CascadeInputs, a \in AssumptionSets}

\* AnalystAgent(session).recommend() with the providers ending in g and q
recommend_cascade(g, q) ==
    /\ probe.op = "none"
    /\ probe' = [probe EXCEPT !.op = "recommend", !.g = g, !.q = q,
                              !.out = recommend(probe.data, g, q)]
    /\ UNCHANGED <<sessions, dicts, tasks, files>>

\* AnalystAgent(session).generate_narrator_notes(assumptions, data)
narrate_cascade(n) ==
    /\ probe.op = "none"
    /\ probe' = [probe EXCEPT !.op = "narrate", !.n = n,
                              !.notes = generate_narrator_notes(probe.assumptions, n)]
    /\ UNCHANGED <<sessions, dicts, tasks, files>>

CascadeNext ==
    \/ \E g \in ProviderOutcomes, q \in ProviderOutcomes : recommend_cascade(g, q)
    \/ \E n \in NarratorOutcomes : narrate_cascade(n)

CascadeSpec == CascadeInit /\ [][CascadeNext]_vars

\* ------------------------------------------------------------ the QA agent
\* A workbook is the sequence of its worksheets.  A sheet: its title,
\* sheet_view.showGridLines, whether freeze_panes is set, whether one of its
\* cells holds a formula with #REF or #DIV in its text, and its chart
\* ("none", or one chart that is "ok", "untitled" or "empty" of series).
SheetOrder == <<"COVER", "ASSUMPTIONS", "INCOME_STATEMENT", "DASHBOARD">>

Sheet(title, grid, frozen, bad, chart) ==
    [title |-> title, grid |-> grid, frozen |-> frozen, bad |-> bad, chart |-> chart]

\* the sheets a title can come as; every title can also be absent
SheetChoices(title) ==
    {<<>>} \cup
    { <<Sheet(title, grid, frozen, bad, chart)>> :
        grid \in BOOLEAN, frozen \in BOOLEAN,
        bad \in (IF title = "INCOME_STATEMENT" THEN BOOLEAN ELSE {FALSE}),
        chart \in (IF title = "DASHBOARD" THEN {"none", "ok", "untitled", "empty"} ELSE {"none"}) }

Workbooks ==
    { a \o b \o c \o d :
        a \in SheetChoices(SheetOrder[1]), b \in SheetChoices(SheetOrder[2]),
        c \in SheetChoices(SheetOrder[3]), d \in SheetChoices(SheetOrder[4]) }

Issue(type, sheet, issue, fixable) ==
    [type |-> type, sheet |-> sheet, issue |-> issue, auto_fixable |-> fixable]

\* the issues of the sheets, one sequence per sheet, in workbook order
RECURSIVE Flat(_)
Flat(ss) == IF ss = <<>> THEN <<>> ELSE Head(ss) \o Flat(Tail(ss))

\* build_agent.py _check_formulas 326-342
FormulaIssuesOf(ws) ==
    IF ws.title # "COVER" /\ ws.bad
    THEN <<Issue("formula_error", ws.title, "Potential error in formula", FALSE)>>
    ELSE <<>>

\* build_agent.py _check_charts 360-381
ChartIssuesOf(ws) ==
    (IF ws.chart = "empty"
     THEN <<Issue("chart_error", ws.title, "no data series", FALSE)>> ELSE <<>>)
    \o (IF ws.chart = "untitled"
        THEN <<Issue("chart_warning", ws.title, "Chart missing title", FALSE)>> ELSE <<>>)

NonDataSheets == {"COVER", "DASHBOARD", "COMPS", "SCENARIOS"}

\* build_agent.py _check_formatting 398-420
GridIssuesOf(ws) ==
    IF ws.grid
    THEN <<Issue("formatting", ws.title, "gridlines still visible", TRUE)>> ELSE <<>>

FreezeIssuesOf(ws) ==
    IF ws.title \notin NonDataSheets /\ ~ws.frozen
    THEN <<Issue("formatting", ws.title, "freeze panes not set on model sheet", TRUE)>>
    ELSE <<>>

FormattingIssuesOf(ws) == GridIssuesOf(ws) \o FreezeIssuesOf(ws)

RequiredSheets == <<"COVER", "ASSUMPTIONS", "DASHBOARD">>

\* build_agent.py _check_sheets 431-449
MissingSheetIssues(wb) ==
    LET titles == {wb[k].title : k \in 1..Len(wb)}
        missing == SelectSeq(RequiredSheets, LAMBDA t : t \notin titles)
    IN [k \in 1..Len(missing) |->
           Issue("missing_sheet", missing[k], "Required sheet is missing", FALSE)]

\* a verdict that lets low and medium issues pass
PassedIfNoHigh(issues) ==
    \A k \in 1..Len(issues) : issues[k].type \notin {"formula_error", "missing_sheet"}

\* build_agent.py audit 306: passed = len(self.issues) == 0
Passed(issues) == Len(issues) = 0

\* build_agent.py QAAgent.audit: the four checks in order, each adding one to
\* checks_run and, when its own counter of problems is 0, one to checks_passed
audit(wb) ==
    LET sheets == 1..Len(wb)
        formula == Flat([k \in sheets |-> FormulaIssuesOf(wb[k])])
        chart == Flat([k \in sheets |-> ChartIssuesOf(wb[k])])
        formatting == Flat([k \in sheets |-> FormattingIssuesOf(wb[k])])
        missing == MissingSheetIssues(wb)
        formula_ok == formula = <<>>
        chart_ok == \A k \in sheets : wb[k].chart # "empty"
        formatting_ok == \A k \in sheets : ~wb[k].grid
        sheets_ok == missing = <<>>
        issues == formula \o chart \o formatting \o missing
        passed == Passed(issues)
        Mark(ok, bad) == IF ok THEN "success" ELSE bad
    IN [passed |-> passed,
        checks_run |-> 4,
        checks_passed |-> Cardinality({c \in {"formula", "chart", "formatting", "sheets"} :
                              \/ c = "formula" /\ formula_ok
                              \/ c = "chart" /\ chart_ok
                              \/ c = "formatting" /\ formatting_ok
                              \/ c = "sheets" /\ sheets_ok}),
        issues |-> issues,
        logs |-> <<"thinking", "thinking", Mark(formula_ok, "warning"),
                   "thinking", Mark(chart_ok, "warning"),
                   "thinking", Mark(formatting_ok, "warning"),
                   "thinking", Mark(sheets_ok, "error"),
                   Mark(passed, "warning")>>]

\* a matcher that knows gridlines only
MentionsGridlines(issue, word) ==
    word = "gridlines" /\ issue = "gridlines still visible"

\* build_agent.py auto_fix 468, 472: word in issue.get("issue", "").lower(), on
\* the two texts _check_formatting writes
Mentions(issue, word) ==
    \/ word = "gridlines" /\ issue = "gridlines still visible"
    \/ word = "freeze panes" /\ issue = "freeze panes not set on model sheet"

\* build_agent.py QAAgent.auto_fix: the workbook saved, and whether it was
\* saved under the _fixed name.  Each fixable issue hides the gridlines of its
\* sheet, or else sets its freeze panes.
auto_fix(wb, issues) ==
    LET fixable == SelectSeq(issues, LAMBDA i : i.auto_fixable)
        HidesGrid(title) ==
            \E k \in 1..Len(fixable) :
                fixable[k].sheet = title /\ Mentions(fixable[k].issue, "gridlines")
        Freezes(title) ==
            \E k \in 1..Len(fixable) :
                /\ fixable[k].sheet = title
                /\ ~Mentions(fixable[k].issue, "gridlines")
                /\ Mentions(fixable[k].issue, "freeze panes")
    IN IF fixable = <<>>
       THEN [wb |-> wb, renamed |-> FALSE]
       ELSE [wb |-> [k \in 1..Len(wb) |->
                       [wb[k] EXCEPT !.grid = @ /\ ~HidesGrid(wb[k].title),
                                     !.frozen = @ \/ Freezes(wb[k].title)]],
             renamed |-> TRUE]

NoReport == [passed |-> FALSE, checks_run |-> 0, checks_passed |-> 0,
             issues |-> <<>>, logs |-> <<>>]

QAInit ==
    /\ sessions = [s \in {} |-> NewSession]
    /\ dicts = <<>>
    /\ tasks = <<>>
    /\ files = {}
    /\ probe \in {[wb |-> wb, stage |-> "built", report |-> NoReport,
                   fixed |-> <<>>, renamed |-> FALSE, report2 |-> NoReport] :
                    wb \in Workbooks}

\* QAAgent(session).audit(excel_path)
qa_audit ==
    /\ probe.stage = "built"
    /\ probe' = [probe EXCEPT !.stage = "audited", !.report = audit(probe.wb)]
    /\ UNCHANGED <<sessions, dicts, tasks, files>>

\* QAAgent(session).auto_fix(excel_path, report["issues"])
qa_auto_fix ==
    /\ probe.stage = "audited"
    /\ LET r == auto_fix(probe.wb, probe.report.issues)
       IN probe' = [probe EXCEPT !.stage = "fixed", !.fixed = r.wb, !.renamed = r.renamed]
    /\ UNCHANGED <<sessions, dicts, tasks, files>>

\* QAAgent(session).audit(fixed_path)
qa_reaudit ==
    /\ probe.stage = "fixed"
    /\ probe' = [probe EXCEPT !.stage = "reaudited", !.report2 = audit(probe.fixed)]
    /\ UNCHANGED <<sessions, dicts, tasks, files>>

QANext == qa_audit \/ qa_auto_fix \/ qa_reaudit

QASpec == QAInit /\ [][QANext]_vars

\* -------------------------------------- PlanningAgent._calculate_metrics
\* The growth rate (num/den)^(1/root) - 1 with den > 0, kept exact.
Rate(num, den, root) ==
    IF den < 0 THEN [num |-> -num, den |-> -den, root |-> root]
    ELSE [num |-> num, den |-> den, root |-> root]

\* rate > p/q - 1 and rate < p/q - 1, for p, q > 0
RateAbove(r, p, q) == r.num * Pow(q, r.root) > r.den * Pow(p, r.root)
RateBelow(r, p, q) == r.num * Pow(q, r.root) < r.den * Pow(p, r.root)

RateEq(a, b) ==
    Pow(a.num, b.root) * Pow(b.den, a.root) = Pow(b.num, a.root) * Pow(a.den, b.root)

\* planning_agent.py 81: rev_cagr = 0.08
DefaultCagr == Rate(108, 100, 1)
CagrCap == Rate(14, 10, 1)
CagrFloor == Rate(9, 10, 1)

\* a quotient num/den with den > 0
Frac(num, den) == IF den < 0 THEN <<-num, -den>> ELSE <<num, den>>
FracLess(a, b) == a[1] * b[2] < b[1] * a[2]
FracEq(a, b) == a[1] * b[2] = b[1] * a[2]

\* planning_agent.py 90: avg_ebitda_margin = 0.22
DefaultMargin == Frac(22, 100)
MarginCap == Frac(60, 100)
MarginFloor == Frac(5, 100)

\* planning_agent.py 77: [r for r in revenue_history if r and r > 0]
PositiveEntries(rev) == SelectSeq(rev, LAMBDA r : r > 0)

\* planning_agent.py 78: [e for e in ebitda_history if e and e != 0]
NonZeroEntries(ebi) == SelectSeq(ebi, LAMBDA e : e # 0)

\* max(min(rev_cagr, 0.40), -0.10) without the lower bound
ClampCagrAbove(r) == IF RateAbove(r, 14, 10) THEN CagrCap ELSE r

\* planning_agent.py 85: max(min(rev_cagr, 0.40), -0.10)
ClampCagr(r) ==
    IF RateAbove(r, 14, 10) THEN CagrCap
    ELSE IF RateBelow(r, 9, 10) THEN CagrFloor
    ELSE r

\* planning_agent.py 95: max(min(avg_ebitda_margin, 0.60), 0.05)
ClampMargin(f) ==
    IF FracLess(MarginCap, f) THEN MarginCap
    ELSE IF FracLess(f, MarginFloor) THEN MarginFloor
    ELSE f

\* planning_agent.py 75-116 on finite numbers: the filtered lists hold only
\* positive revenue, so neither try block can raise
_calculate_metrics(data) ==
    LET revenue == PositiveEntries(data.revenue_history)
        ebitda == NonZeroEntries(data.ebitda_history)
        n == Len(revenue)
        pairs == Min(Len(ebitda), n)
        total == MarginSum(ebitda, revenue, pairs)
    IN [rev_cagr |-> IF n >= 2
                     THEN ClampCagr(Rate(revenue[1], revenue[n], n - 1))
                     ELSE DefaultCagr,
        avg_ebitda_margin |-> IF ebitda # <<>> /\ revenue # <<>>
                              THEN ClampMargin(Frac(total[1], total[2] * pairs))
                              ELSE DefaultMargin,
        base_revenue |-> IF revenue # <<>> THEN revenue[1] ELSE 100,
        revenue_history |-> revenue,
        ebitda_history |-> ebitda]

\* analyst_agent.py 172-177: rev_cagr of the rule where it is a real number
RuleCagr(rev) ==
    LET n == Len(rev) IN
    CASE CagrKind(rev) = "zero" -> Rate(1, 1, 1)
      [] CagrKind(rev) = "default" -> DefaultCagr
      [] OTHER -> Rate(rev[1], rev[n], n - 1)

\* analyst_agent.py 179-185: avg_margin of the rule
RuleMargin(ebi, rev) ==
    LET k == Min(Len(ebi), Len(rev))
        total == MarginSum(ebi, rev, k)
    IN IF ebi = <<>> \/ rev = <<>> THEN Frac(0, 1)
       ELSE IF MarginYears(ebi, rev) = {} THEN Frac(20, 100)
       ELSE Frac(total[1], total[2] * Cardinality(MarginYears(ebi, rev)))

\* ------------------------------------- the metrics over their input domain
PlanRevValues == {-5, 0, 10, 11, 20}
PlanEbiValues == {-3, 0, 2, 15}

MetricsInputs ==
    { [revenue_history |-> rev, ebitda_history |-> ebi] :
        rev \in SeqsUpTo(PlanRevValues, MaxLen), ebi \in SeqsUpTo(PlanEbiValues, MaxLen) }

NoMetrics == [rev_cagr |-> DefaultCagr, avg_ebitda_margin |-> DefaultMargin,
              base_revenue |-> 0, revenue_history |-> <<>>, ebitda_history |-> <<>>]

NoKeyMetrics == [raised |-> FALSE, revenue_cagr |-> DefaultCagr,
                 avg_ebitda_margin |-> DefaultMargin]

MetricsInit ==
    /\ sessions = [s \in {} |-> NewSession]
    /\ dicts = <<>>
    /\ tasks = <<>>
    /\ files = {}
    /\ probe \in {[data |-> d, planned |-> FALSE, metrics |-> NoMetrics,
                   ruled |-> FALSE, key_metrics |-> NoKeyMetrics] : d \in MetricsInputs}

\* PlanningAgent(session)._calculate_metrics(data)
plan_calculate_metrics ==
    /\ ~probe.planned
    /\ probe' = [probe EXCEPT !.planned = TRUE, !.metrics = _calculate_metrics(probe.data)]
    /\ UNCHANGED <<sessions, dicts, tasks, files>>

\* AnalystAgent(session)._rule_based_recommendation(data)["key_metrics"]; a
\* complex rev_cagr raises at the comparison of line 198
rule_key_metrics ==
    /\ ~probe.ruled
    /\ LET rev == probe.data.revenue_history
           ebi == probe.data.ebitda_history
       IN probe' = [probe EXCEPT
            !.ruled = TRUE,
            !.key_metrics =
                IF CagrKind(rev) = "complex" THEN [NoKeyMetrics EXCEPT !.raised = TRUE]
                ELSE [raised |-> FALSE, revenue_cagr |-> RuleCagr(rev),
                      avg_ebitda_margin |-> RuleMargin(ebi, rev)]]
    /\ UNCHANGED <<sessions, dicts, tasks, files>>

MetricsNext == plan_calculate_metrics \/ rule_key_metrics

MetricsSpec == MetricsInit /\ [][MetricsNext]_vars

\* The average EBITDA margin as specified: the mean of ebitda[i]/revenue[i]
\* over the years i of the input histories whose revenue is positive, clamped
\* to [0.05, 0.60]; 0.22 when there is no such year.
MarginBySpec(data) ==
    LET ebi == data.ebitda_history
        rev == data.revenue_history
        years == MarginYears(ebi, rev)
        total == MarginSum(ebi, rev, Min(Len(ebi), Len(rev)))
    IN IF years = {} THEN DefaultMargin
       ELSE ClampMargin(Frac(total[1], total[2] * Cardinality(years)))

\* ------------------------- PlanningAgent: the assumptions and the scenarios
\* From here on a float is kept in millionths: 0.40 is 400000.
\* <<quotient, remainder>> of num * 10^d by den, den > 0, one digit at a time
RECURSIVE DivScaled(_, _, _)
DivScaled(num, den, d) ==
    IF d = 0 THEN <<num \div den, num % den>>
    ELSE LET p == DivScaled(num, den, d - 1)
         IN <<p[1] * 10 + (p[2] * 10) \div den, (p[2] * 10) % den>>

\* the quotient f in millionths
Millionths(f) == DivScaled(f[1], f[2], 6)[1]

\* the rate num/den - 1 of a two-entry history in millionths
RateMillionths(r) == Millionths(<<r.num - r.den, r.den>>)

Max(a, b) == IF a > b THEN a ELSE b

\* round(x, 3) and round(x, 2) as round(x / unit) * unit, halves to even
RoundTo(x, unit) ==
    LET q == x \div unit
        rem == x % unit
    IN IF 2 * rem > unit \/ (2 * rem = unit /\ q % 2 = 1) THEN (q + 1) * unit
       ELSE q * unit

\* x * 0.95, x * 1.30, x * 0.75: x times pct hundredths
Scaled(x, pct) == (x * pct) \div 100

\* planning_agent.py 118-179: the fields the scenarios read or perturb
_build_dcf_assumptions(data, metrics) ==
    LET cagr == RateMillionths(metrics.rev_cagr)
        margin == Millionths(metrics.avg_ebitda_margin)
    IN [f \in {"rev_growth_y1", "rev_growth_y2", "rev_growth_y3", "rev_growth_y4",
               "rev_growth_y5", "gross_margin", "ebitda_margin", "terminal_growth"} |->
          CASE f = "rev_growth_y1" -> RoundTo(cagr, 1000)
            [] f = "rev_growth_y2" -> RoundTo(Scaled(cagr, 95), 1000)
            [] f = "rev_growth_y3" -> RoundTo(Scaled(cagr, 90), 1000)
            [] f = "rev_growth_y4" -> RoundTo(Scaled(cagr, 85), 1000)
            [] f = "rev_growth_y5" -> RoundTo(Scaled(cagr, 80), 1000)
            [] f = "gross_margin" -> RoundTo(Min(margin + 300000, 800000), 10000)
            [] f = "ebitda_margin" -> RoundTo(margin, 10000)
            [] f = "terminal_growth" -> IF data.is_indian THEN 55000 ELSE 25000]

\* planning_agent.py 181-211
_build_lbo_assumptions(data, metrics) ==
    [f \in {"rev_growth", "ebitda_margin"} |->
        CASE f = "rev_growth" -> RoundTo(RateMillionths(metrics.rev_cagr), 1000)
          [] f = "ebitda_margin" -> RoundTo(Millionths(metrics.avg_ebitda_margin), 10000)]

\* planning_agent.py 213-240
_build_3stmt_assumptions(data, metrics) ==
    LET margin == Millionths(metrics.avg_ebitda_margin)
    IN [f \in {"rev_growth", "gross_margin", "ebitda_margin"} |->
        CASE f = "rev_growth" -> RoundTo(RateMillionths(metrics.rev_cagr), 1000)
          [] f = "gross_margin" -> RoundTo(Min(margin + 300000, 800000), 10000)
          [] f = "ebitda_margin" -> RoundTo(margin, 10000)]

\* planning_agent.py 242-262
_build_fpa_assumptions(data, metrics) ==
    LET margin == Millionths(metrics.avg_ebitda_margin)
    IN [f \in {"rev_growth", "gross_margin"} |->
        CASE f = "rev_growth" -> RoundTo(RateMillionths(metrics.rev_cagr), 1000)
          [] f = "gross_margin" -> RoundTo(Min(margin + 300000, 800000), 10000)]

\* planning_agent.py 275, 285: f"rev_growth_y{i}" for i in range(1, 6)
YearKeys == {"rev_growth_y1", "rev_growth_y2", "rev_growth_y3", "rev_growth_y4",
             "rev_growth_y5"}

\* planning_agent.py 264-302: bull_growth (line 273) is computed and not used
_generate_scenarios(base_assumptions, metrics, model_type) ==
    LET base_margin == Millionths(metrics.avg_ebitda_margin)
        bull == [f \in DOMAIN base_assumptions |->
                   IF f \in YearKeys
                   THEN RoundTo(Scaled(base_assumptions[f], 130), 1000)
                   ELSE IF f = "ebitda_margin"
                   THEN RoundTo(Min(base_margin + 20000, 600000), 10000)
                   ELSE IF f = "terminal_growth"
                   THEN RoundTo(base_assumptions[f] + 5000, 1000)
                   ELSE base_assumptions[f]]
        bear == [f \in DOMAIN base_assumptions |->
                   IF f \in YearKeys
                   THEN RoundTo(Max(Scaled(base_assumptions[f], 75), 10000), 1000)
                   ELSE IF f = "ebitda_margin"
                   THEN RoundTo(Max(base_margin - 20000, 50000), 10000)
                   ELSE IF f = "terminal_growth"
                   THEN RoundTo(Max(base_assumptions[f] - 5000, 10000), 1000)
                   ELSE base_assumptions[f]]
    IN [bull |-> bull, base |-> base_assumptions, bear |-> bear]

\* ------------------------------------------ plan() over its input domain
\* Histories of at most two entries, so that every rate is a quotient, and on
\* which no value of the builders or of the scenarios is decided by the binary
\* representation of a decimal tie (the clamped floor -0.10 is: -0.085 * 1.30).
PlanRevenues == {<<>>, <<100, 100>>, <<108, 100>>, <<124, 100>>, <<132, 100>>,
                 <<150, 100>>, <<1004, 1000>>, <<998, 1000>>, <<94, 100>>, <<92, 100>>}
PlanEbitdas == {<<>>, <<3>>, <<25, 25>>, <<59, 118>>, <<90>>}
PlanModelTypes == {"DCF", "LBO", "3-Statement", "FP&A"}

PlanInputs ==
    { [revenue_history |-> rev, ebitda_history |-> ebi, is_indian |-> ind] :
        rev \in PlanRevenues, ebi \in PlanEbitdas, ind \in BOOLEAN }

NoAssumptions == [f \in {} |-> 0]

PlanInit ==
    /\ sessions = [s \in {} |-> NewSession]
    /\ dicts = <<>>
    /\ tasks = <<>>
    /\ files = {}
    /\ probe \in {[data |-> d, model_type |-> mt, stage |-> "data", metrics |-> NoMetrics,
                   assumptions |-> NoAssumptions,
                   scenarios |-> [bull |-> NoAssumptions, base |-> NoAssumptions,
                                  bear |-> NoAssumptions]] :
                    d \in PlanInputs, mt \in PlanModelTypes}

\* plan(), planning_agent.py 35: metrics = self._calculate_metrics(data)
plan_metrics ==
    /\ probe.stage = "data"
    /\ probe' = [probe EXCEPT !.stage = "metrics", !.metrics = _calculate_metrics(probe.data)]
    /\ UNCHANGED <<sessions, dicts, tasks, files>>

\* plan(), planning_agent.py 40-47: the builder of the model type
plan_assumptions ==
    /\ probe.stage = "metrics"
    /\ probe' = [probe EXCEPT
         !.stage = "assumptions",
         !.assumptions =
            CASE probe.model_type = "DCF" -> _build_dcf_assumptions(probe.data, probe.metrics)
              [] probe.model_type = "LBO" -> _build_lbo_assumptions(probe.data, probe.metrics)
              [] probe.model_type = "3-Statement" ->
                    _build_3stmt_assumptions(probe.data, probe.metrics)
              [] OTHER -> _build_fpa_assumptions(probe.data, probe.metrics)]
    /\ UNCHANGED <<sessions, dicts, tasks, files>>

\* plan(), planning_agent.py 50-53: scenarios = self._generate_scenarios(...)
plan_scenarios ==
    /\ probe.stage = "assumptions"
    /\ probe' = [probe EXCEPT
         !.stage = "scenarios",
         !.scenarios = _generate_scenarios(probe.assumptions, probe.metrics, probe.model_type)]
    /\ UNCHANGED <<sessions, dicts, tasks, files>>

PlanNext == plan_metrics \/ plan_assumptions \/ plan_scenarios

PlanSpec == PlanInit /\ [][PlanNext]_vars

\* planning_agent.py 154-158, 196, 220, 247: the growth-rate fields of the
\* assumptions of a model type
GrowthFields(model_type) == IF model_type = "DCF" THEN YearKeys ELSE {"rev_growth"}

\* build_agent.py 338, 367, 376, 402, 414, 443: the "type" of the issues each
\* of the four checkers appends
CheckerTypes ==
    [formula |-> {"formula_error"}, chart |-> {"chart_error", "chart_warning"},
     formatting |-> {"formatting"}, sheets |-> {"missing_sheet"}]

\* ------------------------------------ values supplied during a research run
\* a research run of the session is suspended in fetch (research_agent.py 125)
Fetching(s) ==
    \E t \in DOMAIN tasks :
        tasks[t].kind = "run_pipeline" /\ tasks[t].sid = s /\ tasks[t].pc = "fetch"

\* the handlers, provide_missing_data arriving only while a research run of its
\* session is in flight
HandlerInFlight ==
    \/ \E s \in SessionIds : new_session(s)
    \/ \E s \in SessionIds, q \in Queries : start_research(s, q)
    \/ \E s \in SessionIds, c \in BOOLEAN, mt \in ReqModelTypes : confirm_model(s, c, mt)
    \/ \E s \in SessionIds : get_status(s)
    \/ \E s \in SessionIds : download_model(s)
    \/ \E s \in SessionIds, f \in UserFields, v \in UserValues :
          Fetching(s) /\ provide_missing_data(s, f, v)

NextInFlight == HandlerInFlight \/ TaskStep

InFlightSpec == Init /\ [][NextInFlight]_vars

\* ============================================================ properties
PhaseOf(s) == IF s \in DOMAIN sessions THEN sessions[s].phase ELSE "idle"

Suspended(t) == tasks[t].pc \in {"fetch", "recommend", "sheets"}

\* C1: once a session's phase is delivered or error, no later operation or run
\* changes it.
C1_TerminalAbsorbing ==
    [][\A s \in DOMAIN sessions :
          sessions[s].phase \in Terminal => sessions'[s].phase = sessions[s].phase]_vars

\* the edges of the phase graph of the specification, and any non-terminal
\* phase to error
PhaseEdges ==
    { <<"idle", "researching">>, <<"researching", "awaiting_confirmation">>,
      <<"awaiting_confirmation", "planning">>, <<"planning", "building">>,
      <<"building", "delivered">> }
    \cup {<<p, "error">> : p \in {"idle", "researching", "awaiting_confirmation",
                                  "planning", "building"}}

\* C2: every change of a session's phase follows an edge of the phase graph
\* (a session not yet referenced counts as idle).
C2_PhaseFollowsGraph ==
    [][\A s \in SessionIds :
          PhaseOf(s)' # PhaseOf(s) => <<PhaseOf(s), PhaseOf(s)'>> \in PhaseEdges]_vars

\* C3: no two background units of work of one session are suspended at their
\* await points at the same time.
C3_OneRunInFlight ==
    \A t1 \in DOMAIN tasks, t2 \in DOMAIN tasks :
        (t1 # t2 /\ tasks[t1].sid = tasks[t2].sid) => ~(Suspended(t1) /\ Suspended(t2))

\* C4: under fair scheduling a session whose phase is building eventually
\* reaches delivered or error.
C4_BuildReachesTerminal ==
    \A s \in SessionIds : (PhaseOf(s) = "building") ~> (PhaseOf(s) \in Terminal)

\* C5: a build run starts only after Planning has written the session's
\* Assumptions Set.
C5_BuildAfterPlanning ==
    \A t \in DOMAIN tasks :
        (tasks[t].kind = "build_model" /\ tasks[t].pc # "scheduled")
            => sessions[tasks[t].sid].assumptions # <<>>

\* C6: after a build run that returned without a fault, get-status reports the
\* artifact ready and download-artifact serves it.
C6_ArtifactRecorded ==
    \A t \in DOMAIN tasks :
        (tasks[t].kind = "build_model" /\ tasks[t].pc = "done")
            => /\ StatusOf(sessions[tasks[t].sid]).excel_ready
               /\ DownloadOf(sessions[tasks[t].sid])

\* C7: after a build run that produced an artifact, a QA report is recorded in
\* the session.
C7_QaReportRecorded ==
    \A t \in DOMAIN tasks :
        (tasks[t].kind = "build_model" /\ t \in files)
            => sessions[tasks[t].sid].qa_report # "None"

\* the build runs of a session
BuildRuns(tt, s) == {t \in DOMAIN tt : tt[t].kind = "build_model" /\ tt[t].sid = s}

\* C8: only a confirm-model call with confirmed = true schedules a build run
\* for a session or moves its phase to planning or building.
C8_BuildOnlyByConfirm ==
    [][\A s \in SessionIds :
          (\/ BuildRuns(tasks', s) # BuildRuns(tasks, s)
           \/ (PhaseOf(s)' # PhaseOf(s) /\ PhaseOf(s)' \in {"planning", "building"}))
              => \E mt \in ReqModelTypes : confirm_model(s, TRUE, mt)]_vars

\* a research run ended at awaiting_confirmation and a build run, started by a
\* later confirmation, is under way
C8_Witness ==
    \E t1 \in DOMAIN tasks, t2 \in DOMAIN tasks :
        /\ tasks[t1].kind = "run_pipeline" /\ tasks[t1].pc = "done"
        /\ tasks[t1].stage = "deep_analysis"
        /\ tasks[t2].kind = "build_model" /\ tasks[t2].sid = tasks[t1].sid
        /\ tasks[t2].pc = "sheets"

\* C9: AnalystAgent.recommend raises nothing, whatever the providers return:
\* no research run faults in its Analysis stage.
C9_RecommendNeverRaises ==
    \A t \in DOMAIN tasks : ~(tasks[t].stage = "analysis" /\ tasks[t].pc = "faulted")

\* C10: with both providers unavailable recommend raises nothing and returns
\* the rule's recommendation for the record.
C10_UnavailableGivesRule ==
    probe.applied =>
        /\ ~probe.out.raised
        /\ probe.out.calls = <<"gemini", "groq", "rule">>
        /\ probe.out.model_type \in {"LBO", "DCF", "3-Statement"}

\* the answer a provider call hands back: the parsed dict, when it is non-empty
FirstSuccess(g, q, d) ==
    IF Truthy(g) THEN g.result.model_type
    ELSE IF Truthy(q) THEN q.result.model_type
    ELSE _rule_based_recommendation(d).model_type

\* C11: a cascade asks its links in order and stops at the first success: Groq
\* is asked only if Gemini failed, the rule only if both failed, and a result
\* that is returned is that of the first success; the narrator computes its notes
\* only if its provider gave none.
C11_CascadeShortCircuits ==
    /\ probe.op = "recommend" =>
          /\ probe.out.calls =
                <<"gemini">> \o (IF Truthy(probe.g) THEN <<>> ELSE <<"groq">>)
                             \o (IF Truthy(probe.g) \/ Truthy(probe.q) THEN <<>> ELSE <<"rule">>)
          /\ probe.out.wrote =>
                probe.out.model_type = FirstSuccess(probe.g, probe.q, probe.data)
    /\ probe.op = "narrate" =>
          /\ probe.notes.calls =
                <<"gemini">> \o (IF probe.n = "notes" THEN <<>> ELSE <<"rule">>)
          /\ probe.notes.source = (IF probe.n = "notes" THEN "gemini" ELSE "rule")

\* Gemini failed and Groq answered: Groq's answer is returned, the rule is not
\* computed
C11_Witness ==
    /\ probe.op = "recommend"
    /\ ~Truthy(probe.g) /\ Truthy(probe.q)
    /\ probe.out.calls = <<"gemini", "groq">>
    /\ ~probe.out.raised /\ probe.out.model_type = probe.q.result.model_type

\* C12: whenever a session's phase is awaiting_confirmation, building or
\* delivered, its model_recommendation is set.
C12_RecommendationSet ==
    \A s \in DOMAIN sessions :
        sessions[s].phase \in {"awaiting_confirmation", "building", "delivered"}
            => sessions[s].model_recommendation # "None"

\* C13: a session's model_recommendation is unset or one of DCF, LBO,
\* 3-Statement, FP&A.
C13_RecommendationInClosedSet ==
    \A s \in DOMAIN sessions :
        sessions[s].model_recommendation \in ModelTypes \cup {"None"}

\* C14: when the data layer reports found = false, the step in which the fetch
\* returns sets phase error with a non-empty message and ends the run in its
\* Research stage; the run takes no step afterwards.
C14_NotFoundStopsRun ==
    [][\A t \in DOMAIN tasks :
          /\ (tasks[t].kind = "run_pipeline" /\ tasks[t].pc = "fetch"
                /\ tasks'[t].pc # "fetch" /\ ~dicts'[t].found)
                => /\ sessions'[tasks[t].sid].phase = "error"
                   /\ sessions'[tasks[t].sid].error \notin {"None", ""}
                   /\ tasks'[t].pc = "done" /\ tasks'[t].stage = "research"
          /\ (tasks[t].kind = "run_pipeline" /\ tasks[t].pc = "done")
                => tasks'[t] = tasks[t]]_vars

\* a run ended in its Research stage with the not-found message in the session
C14_Witness ==
    \E t \in DOMAIN tasks :
        /\ tasks[t].kind = "run_pipeline" /\ tasks[t].pc = "done"
        /\ tasks[t].stage = "research"
        /\ sessions[tasks[t].sid].phase = "error"
        /\ sessions[tasks[t].sid].error = "Could not find financial data"

\* the entries of error severity in a log
ErrorEntries(logs) == {i \in 1..Len(logs) : logs[i].status = "error"}

\* C15: the step in which a background run faults sets the session's phase to
\* error and its error message, appends log entries of which exactly one, the
\* last, has error severity; a faulted run takes no further step.
C15_FaultsCaught ==
    [][\A t \in DOMAIN tasks :
          LET s == tasks[t].sid IN
          /\ (tasks[t].pc # "faulted" /\ tasks'[t].pc = "faulted")
                => /\ sessions'[s].phase = "error"
                   /\ sessions'[s].error # "None"
                   /\ Len(sessions'[s].logs) > Len(sessions[s].logs)
                   /\ SubSeq(sessions'[s].logs, 1, Len(sessions[s].logs)) = sessions[s].logs
                   /\ Cardinality(ErrorEntries(sessions'[s].logs))
                        = Cardinality(ErrorEntries(sessions[s].logs)) + 1
                   /\ sessions'[s].logs[Len(sessions'[s].logs)].status = "error"
          /\ tasks[t].pc = "faulted" => tasks'[t] = tasks[t]]_vars

\* a research run faulted in its Analysis stage and a build run faulted
C15_Witness ==
    /\ \E t \in DOMAIN tasks : tasks[t].kind = "run_pipeline" /\ tasks[t].pc = "faulted"
    /\ \E t \in DOMAIN tasks : tasks[t].kind = "build_model" /\ tasks[t].pc = "faulted"

\* C16: a session's log is append-only: in every step the log before is a
\* prefix of the log after.
C16_LogAppendOnly ==
    [][\A s \in DOMAIN sessions :
          /\ Len(sessions'[s].logs) >= Len(sessions[s].logs)
          /\ SubSeq(sessions'[s].logs, 1, Len(sessions[s].logs)) = sessions[s].logs]_vars

\* what an observer of session s can see: its record and its company data
SessionView(s) ==
    IF s \in DOMAIN sessions
    THEN <<sessions[s], CompanyData(sessions[s], dicts)>>
    ELSE <<>>

\* the step is an operation on session s, or a step of one of its runs
Addressed(s) ==
    \/ new_session(s)
    \/ \E q \in Queries : start_research(s, q)
    \/ \E c \in BOOLEAN, mt \in ReqModelTypes : confirm_model(s, c, mt)
    \/ get_status(s)
    \/ download_model(s)
    \/ \E f \in UserFields, v \in UserValues : provide_missing_data(s, f, v)
    \/ \E t \in DOMAIN tasks : tasks[t].sid = s /\ tasks'[t] # tasks[t]

\* C17: an operation on one session, or a step of one of its runs, changes no
\* other session's record or company data, and a first reference by
\* new-session, get-status or download creates the fresh record.
C17_SessionsIndependent ==
    [][\A s \in SessionIds2 :
          Addressed(s) =>
             /\ \A o \in SessionIds2 \ {s} : SessionView(o)' = SessionView(o)
             /\ (s \notin DOMAIN sessions
                   /\ (new_session(s) \/ get_status(s) \/ download_model(s)))
                   => (sessions'[s] = NewSession /\ DOMAIN sessions' = DOMAIN sessions \cup {s})]_vars

\* both sessions exist, one with company data a research run fetched and a
\* user-supplied field, while a run of the other is suspended
C17_Witness ==
    /\ DOMAIN sessions = SessionIds2
    /\ \E t \in DOMAIN tasks : Suspended(t) /\ tasks[t].sid = "s2"
    /\ sessions["s1"].company_data # 0
    /\ IsStr(CompanyData(sessions["s1"], dicts), "market_cap")
    /\ ~IsStr(CompanyData(sessions["s2"], dicts), "market_cap")

\* the invariant of a QA report
ReportSound(r) ==
    /\ r.checks_passed <= r.checks_run
    /\ r.passed = (Len(r.issues) = 0)

\* C18: every report audit returns has checks_passed <= checks_run and
\* passed exactly when its issue list is empty.
C18_ReportInvariant ==
    /\ probe.stage \in {"audited", "fixed", "reaudited"} => ReportSound(probe.report)
    /\ probe.stage = "reaudited" => ReportSound(probe.report2)

\* a report with issues although every one of the four checks passed
C18_Witness ==
    /\ probe.stage = "audited"
    /\ probe.report.checks_passed = probe.report.checks_run
    /\ ~probe.report.passed /\ probe.report.issues # <<>>

\* the formatting issues of a report
FormattingIssues(r) == SelectSeq(r.issues, LAMBDA i : i.type = "formatting")

RuleBySpec(d) ==
    IF DebtAbove3(d.ebitda_history, d.total_debt) THEN "LBO"
    ELSE IF CagrAbove20(d.revenue_history) \/ GrowthSector(d.sector) THEN "DCF"
    ELSE IF /\ MarginAbove25(d.ebitda_history, d.revenue_history)
            /\ ~IsStr(d, "market_cap") /\ d.market_cap > MarketCapThreshold THEN "DCF"
    ELSE "3-Statement"

\* C20: for every input the rule returns the model type of the first matching
\* condition in the order LBO, DCF (growth), DCF (margin and size), 3-Statement.
C20_RuleFirstMatch ==
    probe.applied =>
        /\ probe.out.model_type = RuleBySpec(probe.data)
        /\ probe.out.model_type \in {"LBO", "DCF", "3-Statement"}

\* C21: whenever Planning has computed its metrics from a revenue history
\* with at least two positive entries, the revenue CAGR lies in
\* [-0.10, 0.40]; with fewer than two positive entries it is 0.08.
C21_CagrClamped ==
    probe.planned =>
        LET c == probe.metrics.rev_cagr IN
        IF Len(PositiveEntries(probe.data.revenue_history)) >= 2
        THEN ~RateBelow(c, 9, 10) /\ ~RateAbove(c, 14, 10)
        ELSE c = DefaultCagr

\* a computed CAGR that the lower clamp moved: revenue fell by more than 10%
\* a year
C21_Witness ==
    /\ probe.planned
    /\ Len(PositiveEntries(probe.data.revenue_history)) >= 2
    /\ LET rev == PositiveEntries(probe.data.revenue_history)
       IN RateBelow(Rate(rev[1], rev[Len(rev)], Len(rev) - 1), 9, 10)
    /\ probe.metrics.rev_cagr = CagrFloor

\* C26: whenever Planning has computed its metrics, the average EBITDA margin
\* is the clamped mean of ebitda[i]/revenue[i] over the years i of the input
\* histories whose revenue is positive, each EBITDA value paired with the
\* revenue of its own year, and 0.22 when there is no such year.
C26_MarginPairsYears ==
    probe.planned => FracEq(probe.metrics.avg_ebitda_margin, MarginBySpec(probe.data))

\* C25: on every company-data record, the revenue CAGR and the average EBITDA
\* margin computed by the rule-based recommendation equal the ones Planning
\* computes from the same record.
C25_RuleMetricsEqualPlanning ==
    (probe.planned /\ probe.ruled) =>
        /\ ~probe.key_metrics.raised
        /\ RateEq(probe.key_metrics.revenue_cagr, probe.metrics.rev_cagr)
        /\ FracEq(probe.key_metrics.avg_ebitda_margin, probe.metrics.avg_ebitda_margin)

\* C22: whenever Planning has generated the scenarios of an Assumptions Set,
\* bear <= base <= bull holds for every growth-rate field of the model type
\* and for ebitda_margin, bull's margin is at most 0.60 and bear's margin is
\* at least 0.05.
C22_ScenariosOrdered ==
    probe.stage = "scenarios" =>
        LET s == probe.scenarios IN
        /\ \A f \in GrowthFields(probe.model_type) :
              s.bear[f] <= s.base[f] /\ s.base[f] <= s.bull[f]
        /\ "ebitda_margin" \in DOMAIN s.base =>
              /\ s.bear["ebitda_margin"] <= s.base["ebitda_margin"]
              /\ s.base["ebitda_margin"] <= s.bull["ebitda_margin"]
              /\ s.bull["ebitda_margin"] <= 600000
              /\ s.bear["ebitda_margin"] >= 50000

\* C23: whenever Planning has generated the scenarios, every growth-rate field
\* of the model type is the base value times 1.30 capped at 0.40 in bull and
\* the base value times 0.75 floored at 0.01 in bear (to the three decimals
\* the code keeps), and base is the Assumptions Set itself.
C23_GrowthScaledAndCapped ==
    probe.stage = "scenarios" =>
        LET s == probe.scenarios IN
        /\ s.base = probe.assumptions
        /\ \A f \in GrowthFields(probe.model_type) :
              /\ s.bull[f] = RoundTo(Min(Scaled(s.base[f], 130), 400000), 1000)
              /\ s.bear[f] = RoundTo(Max(Scaled(s.base[f], 75), 10000), 1000)

\* C24: after an audit, checks_passed is the number of the four checkers that
\* appended no issue, so checks_passed = checks_run only with an empty issue
\* list.
C24_PassedMeansNoIssue ==
    probe.stage # "built" =>
        LET r == probe.report
            types == {r.issues[k].type : k \in 1..Len(r.issues)}
            clean == {c \in DOMAIN CheckerTypes : CheckerTypes[c] \cap types = {}}
        IN /\ r.checks_passed = Cardinality(clean)
           /\ r.checks_passed = r.checks_run => r.issues = <<>>

\* C27: after a cascade invocation, every provider that was attempted has left
\* exactly one log entry for its attempt, whatever the attempt ended in.
C27_OneEntryPerAttempt ==
    probe.op = "recommend" =>
        LET logs == probe.out.logs
            name == [gemini |-> "Gemini analyst", groq |-> "Groq analyst"]
        IN \A p \in DOMAIN name :
              (\E k \in DOMAIN probe.out.calls : probe.out.calls[k] = p) =>
                  Cardinality({k \in DOMAIN logs : logs[k].msg = name[p]}) = 1

\* C28: in every reachable state, get-status reports an error message for a
\* session if and only if the session's phase is error.
C28_ErrorIffErrorPhase ==
    \A s \in DOMAIN sessions :
        StatusOf(sessions[s]).error # "None" <=> sessions[s].phase = "error"

\* C29: a confirm-model call with confirmed = false schedules no unit of work
\* and leaves the phase, the log, the company data, the assumptions and the
\* artifact path of its session as they were, whatever the phase.
C29_CancelChangesNothing ==
    [][\A s \in SessionIds, mt \in ReqModelTypes :
          confirm_model(s, FALSE, mt) =>
              LET before == SessionsAfterGet(s)[s]
                  after == sessions'[s]
              IN /\ tasks' = tasks
                 /\ after.phase = before.phase
                 /\ after.logs = before.logs
                 /\ CompanyData(after, dicts') = CompanyData(before, dicts)
                 /\ after.assumptions = before.assumptions
                 /\ after.excel_path = before.excel_path]_vars

\* a cancellation that named a model type has acted on a session whose only
\* run ended in error at the research stage: nothing but the cancellation can
\* have written the recommendation
C29_Witness ==
    /\ Len(tasks) = 1 /\ tasks[1].kind = "run_pipeline" /\ tasks[1].pc = "done"
    /\ tasks[1].sid \in DOMAIN sessions
    /\ sessions[tasks[1].sid].phase = "error"
    /\ sessions[tasks[1].sid].model_recommendation = "Comps"

\* C30: every value supplied through provide-missing-field while a research
\* run of the session is in flight is still in the session's company_data,
\* with that value, after the run's fetch has completed.
C30_SuppliedValueSurvivesRun ==
    [][\A t \in DOMAIN tasks, d \in FetchResults :
          run_pipeline_fetched(t, d) =>
              CompanyData(sessions[tasks[t].sid], dicts).user
                  \subseteq CompanyData(sessions'[tasks[t].sid], dicts').user]_vars
====
